---- MODULE Spec2Model ----
(***************************************************************************)
(* Model of signature.js: a command line utility that signs a data file    *)
(* with a private key (writing the base64 signature to a file) or verifies *)
(* a base64 signature file over a data file with a public key.             *)
(*                                                                         *)
(* Every invocation is one node process: processArgs dispatches to sign or *)
(* verify, each of which is a chain of fs callbacks.  The file system      *)
(* outlives the process, so a run of sign can be followed by a run of      *)
(* verify on the files it left behind.                                     *)
(***************************************************************************)
EXTENDS Integers, Sequences, FiniteSets, TLC

(***************************************************************************)
(* Bounds of the model.                                                    *)
(***************************************************************************)
MaxRuns == 2          \* process invocations in one behaviour
MaxRawLen == 3        \* bytes in a raw signature handed to the codec alone

(***************************************************************************)
(* Bytes and bit flips.                                                    *)
(***************************************************************************)
Pow2(k) == 2 ^ k

Bit(b, k) == (b \div Pow2(k)) % 2

\* b with bit k inverted (b XOR 2^k)
FlipBit(b, k) == IF Bit(b, k) = 1 THEN b - Pow2(k) ELSE b + Pow2(k)

FlipAt(s, i, k) == [s EXCEPT ![i] = FlipBit(s[i], k)]

(***************************************************************************)
(* Buffer.toString('base64'): the standard alphabet, '=' padding.          *)
(***************************************************************************)
PadChar == 61

B64Char(i) ==
  IF i < 26 THEN 65 + i
  ELSE IF i < 52 THEN 97 + (i - 26)
  ELSE IF i < 62 THEN 48 + (i - 52)
  ELSE IF i = 62 THEN 43
  ELSE 47

RECURSIVE Base64Encode(_)
Base64Encode(b) ==
  IF Len(b) = 0 THEN << >>
  ELSE IF Len(b) = 1 THEN
    << B64Char(b[1] \div 4), B64Char((b[1] % 4) * 16), PadChar, PadChar >>
  ELSE IF Len(b) = 2 THEN
    << B64Char(b[1] \div 4),
       B64Char((b[1] % 4) * 16 + (b[2] \div 16)),
       B64Char((b[2] % 16) * 4), PadChar >>
  ELSE
    << B64Char(b[1] \div 4),
       B64Char((b[1] % 4) * 16 + (b[2] \div 16)),
       B64Char((b[2] % 16) * 4 + (b[3] \div 64)),
       B64Char(b[3] % 64) >> \o Base64Encode(SubSeq(b, 4, Len(b)))

(***************************************************************************)
(* Decoding a 'base64' string into a Buffer, as node does it: a character  *)
(* outside the alphabet (white space included) is skipped, the URL-safe    *)
(* '-' and '_' are accepted, decoding stops at the first '=', the unused   *)
(* low bits of a final partial group are dropped, and nothing ever throws. *)
(***************************************************************************)
Unbase64(c) ==
  IF c >= 65 /\ c <= 90 THEN c - 65
  ELSE IF c >= 97 /\ c <= 122 THEN c - 97 + 26
  ELSE IF c >= 48 /\ c <= 57 THEN c - 48 + 52
  ELSE IF c = 43 \/ c = 45 THEN 62
  ELSE IF c = 47 \/ c = 95 THEN 63
  ELSE -1

\* the sextets of the characters before the first '=', invalid ones skipped
RECURSIVE Sextets(_)
Sextets(t) ==
  IF Len(t) = 0 \/ t[1] = PadChar THEN << >>
  ELSE IF Unbase64(t[1]) < 0 THEN Sextets(Tail(t))
  ELSE << Unbase64(t[1]) >> \o Sextets(Tail(t))

RECURSIVE SextetsToBytes_DropTail(_)
\* a decoder that forgets the final partial group
SextetsToBytes_DropTail(x) ==
  IF Len(x) < 4 THEN << >>
  ELSE << x[1] * 4 + (x[2] \div 16),
          (x[2] % 16) * 16 + (x[3] \div 4),
          (x[3] % 4) * 64 + x[4] >> \o SextetsToBytes_DropTail(SubSeq(x, 5, Len(x)))

RECURSIVE SextetsToBytes(_)
SextetsToBytes(x) ==
  IF Len(x) < 2 THEN << >>
  ELSE IF Len(x) = 2 THEN << x[1] * 4 + (x[2] \div 16) >>
  ELSE IF Len(x) = 3 THEN
    << x[1] * 4 + (x[2] \div 16), (x[2] % 16) * 16 + (x[3] \div 4) >>
  ELSE
    << x[1] * 4 + (x[2] \div 16),
       (x[2] % 16) * 16 + (x[3] \div 4),
       (x[3] % 4) * 64 + x[4] >> \o SextetsToBytes(SubSeq(x, 5, Len(x)))

Base64Decode(t) == SextetsToBytes(Sextets(t))

(***************************************************************************)
(* Strings written to and read from files as 'utf8'.  A byte that is not   *)
(* part of a well-formed sequence reads as U+FFFD.                         *)
(***************************************************************************)
ReplacementChar == 65533

RECURSIVE Utf8Encode(_)
Utf8Encode(t) ==
  IF Len(t) = 0 THEN << >>
  ELSE IF t[1] < 128 THEN << t[1] >> \o Utf8Encode(Tail(t))
  ELSE IF t[1] < 2048 THEN
    << 192 + (t[1] \div 64), 128 + (t[1] % 64) >> \o Utf8Encode(Tail(t))
  ELSE << 224 + (t[1] \div 4096), 128 + ((t[1] \div 64) % 64), 128 + (t[1] % 64) >>
       \o Utf8Encode(Tail(t))

RECURSIVE Utf8Decode(_)
Utf8Decode(b) ==
  IF Len(b) = 0 THEN << >>
  ELSE IF b[1] < 128 THEN << b[1] >> \o Utf8Decode(Tail(b))
  ELSE IF b[1] >= 194 /\ b[1] <= 223 /\ Len(b) >= 2 /\ b[2] >= 128 /\ b[2] <= 191 THEN
    << (b[1] - 192) * 64 + (b[2] - 128) >> \o Utf8Decode(SubSeq(b, 3, Len(b)))
  ELSE << ReplacementChar >> \o Utf8Decode(Tail(b))

(***************************************************************************)
(* The crypto library under SIGNATURE_ALGORITHM = 'RSA-SHA256'.            *)
(*                                                                         *)
(* RSA is computed as RSA (modular exponentiation, a signature as long as  *)
(* the modulus) with 16-bit moduli.  The hash is ideal: distinct           *)
(* (algorithm, data) pairs with at most one byte of data have distinct     *)
(* encoded digests, all below every modulus.                               *)
(***************************************************************************)
SIGNATURE_ALGORITHM == "RSA-SHA256"

AlgorithmCode(alg) == IF alg = "RSA-SHA256" THEN 1 ELSE 2

RECURSIVE DataNumber(_)
DataNumber(d) == IF Len(d) = 0 THEN 0 ELSE 1 + d[1] + 256 * DataNumber(Tail(d))

\* the encoded message of the data under the algorithm's hash
EncodedDigest(alg, d) == AlgorithmCode(alg) * 1000 + DataNumber(d)

RECURSIVE PowMod(_, _, _)
PowMod(a, e, n) ==
  IF e = 0 THEN 1 % n
  ELSE LET h == PowMod(a, e \div 2, n)
           sq == (h * h) % n
       IN  IF e % 2 = 1 THEN (sq * a) % n ELSE sq

ModulusLen == 2

I2OSP(v) == << v \div 256, v % 256 >>

OS2IP(b) == b[1] * 256 + b[2]

RECURSIVE BytesLess(_, _)
BytesLess(a, b) ==
  IF Len(a) = 0 THEN FALSE
  ELSE IF a[1] # b[1] THEN a[1] < b[1]
  ELSE BytesLess(Tail(a), Tail(b))

\* PEM key material: two key pairs and a file that is no key at all
PrivateKey1 == [type |-> "PRIVATE KEY", n |-> 41989, exp |-> 1223]
PublicKey1  == [type |-> "PUBLIC KEY",  n |-> 41989, exp |-> 17]
PrivateKey2 == [type |-> "PRIVATE KEY", n |-> 44197, exp |-> 1073]
PublicKey2  == [type |-> "PUBLIC KEY",  n |-> 44197, exp |-> 17]
NotAKey     == [type |-> "GARBAGE", n |-> 0, exp |-> 0]

KeyPairs == { << PrivateKey1, PublicKey1 >>, << PrivateKey2, PublicKey2 >> }

\* createSign(alg); update(data); sign(key): throws unless key is a private key
SignThrows(key) == key.type # "PRIVATE KEY"

SignerSign(alg, d, key) == I2OSP(PowMod(EncodedDigest(alg, d), key.exp, key.n))

\* createVerify(alg); update(data); verify(key, sig): throws unless key parses
VerifyThrows(key) == key.type # "PUBLIC KEY"

VerifierVerify(alg, d, key, sig) ==
  /\ Len(sig) = ModulusLen
  /\ BytesLess(sig, I2OSP(key.n))
  /\ PowMod(OS2IP(sig), key.exp, key.n) = EncodedDigest(alg, d)

(***************************************************************************)
(* State.  The four files and whether the signature path can be written    *)
(* are the file system, which outlives a process.  The rest is the state   *)
(* of the one process that is running or has last run.                     *)
(***************************************************************************)
VARIABLES
  dataFile,        \* [exists, bytes]: the file at dataPath
  privateKeyFile,  \* [exists, pem]: the file at privateKeyPath
  signatureFile,   \* [exists, bytes]: the file at signaturePath
  publicKeyFile,   \* [exists, pem]: the file at publicKeyPath
  sigWritable,     \* whether a write to signaturePath succeeds
  pc,              \* "idle" before the first run, "running", "exited"
  command,         \* process.argv[2] of the current run
  status,          \* the exit status of the process, once pc = "exited"
  pending,         \* the fs requests issued whose callback has not run
  data,            \* the callbacks' locals: [defined, bytes]
  privateKey,      \* [defined, pem]
  publicKey,       \* [defined, pem]
  signature,       \* sign: the raw signature; verify: the text read, as code points
  signature_b64,   \* sign: the signature as base64 text
  valid,           \* verify: the result of verifier.verify
  sigBytes,        \* verify: the bytes the verification primitive decoded
  console,         \* what console.log has printed in this run
  trace,           \* the fs requests and primitives of this run, in order
  runs,            \* processes started so far
  sigAtStart,      \* signatureFile when the current run started
  signedWith,      \* the private key of the last sign run that wrote signatureFile
  tampered         \* "none", or which file was changed since that sign run

fsVars == << dataFile, privateKeyFile, signatureFile, publicKeyFile, sigWritable >>
locals == << data, privateKey, publicKey, signature, signature_b64, valid, sigBytes >>
vars == << dataFile, privateKeyFile, signatureFile, publicKeyFile, sigWritable,
           pc, command, status, pending, data, privateKey, publicKey, signature,
           signature_b64, valid, sigBytes, console, trace, runs, sigAtStart,
           signedWith, tampered >>

Undefined == [defined |-> FALSE, bytes |-> << >>]
UndefinedKey == [defined |-> FALSE, pem |-> NotAKey]
Buffer(b) == [defined |-> TRUE, bytes |-> b]
KeyBuffer(k) == [defined |-> TRUE, pem |-> k]

NoFile == [exists |-> FALSE, bytes |-> << >>]
NoKeyFile == [exists |-> FALSE, pem |-> NotAKey]
File(b) == [exists |-> TRUE, bytes |-> b]
KeyFile(k) == [exists |-> TRUE, pem |-> k]

\* console.log of a message, of a buffer's dump, of key material's dump
Line(m) == [text |-> m, bytes |-> << >>, pem |-> NotAKey]
Dump(m, b) == [text |-> m, bytes |-> b, pem |-> NotAKey]
KeyDump(m, k) == [text |-> m, bytes |-> << >>, pem |-> k]

\* process.exit(code): the status the parent sees
ExitStatus(code) == code % 256

\* an exception no one catches ends the process with status 1
UncaughtStatus == 1

\* fs.readFile's err argument for a file
ReadErr(f) == ~f.exists

\* a handleError that prints and returns
HandleErrorExits_Never(err) == FALSE

\* handleError(err): whether it exits the process
HandleErrorExits(err) == err

RECURSIVE SeqsUpTo(_, _)
SeqsUpTo(S, n) ==
  IF n = 0 THEN { << >> }
  ELSE LET shorter == SeqsUpTo(S, n - 1)
       IN  shorter \cup { Append(q, c) : q \in { r \in shorter : Len(r) = n - 1 }, c \in S }

InitData == { << >>, << 0 >>, << 104 >> }
InitSigTexts == { << >>, << 81, 81, 61, 61 >>, << 33, 10 >> }

Init ==
  /\ dataFile \in { NoFile } \cup { File(b) : b \in InitData }
  /\ privateKeyFile \in { NoKeyFile, KeyFile(PrivateKey1), KeyFile(PrivateKey2), KeyFile(NotAKey) }
  /\ publicKeyFile \in { NoKeyFile, KeyFile(PublicKey1), KeyFile(PublicKey2), KeyFile(NotAKey) }
  /\ signatureFile \in { NoFile } \cup { File(t) : t \in InitSigTexts }
  /\ sigWritable \in BOOLEAN
  /\ pc = "idle"
  /\ command = "none"
  /\ status = 0
  /\ pending = { }
  /\ data = Undefined
  /\ privateKey = UndefinedKey
  /\ publicKey = UndefinedKey
  /\ signature = Undefined
  /\ signature_b64 = << >>
  /\ valid = FALSE
  /\ sigBytes = Undefined
  /\ console = << >>
  /\ trace = << >>
  /\ runs = 0
  /\ sigAtStart = signatureFile
  /\ signedWith = NotAKey
  /\ tampered = "none"

\* a new process: everything but the file system starts afresh
Start(cmd) ==
  /\ pc \in { "idle", "exited" }
  /\ runs < MaxRuns
  /\ runs' = runs + 1
  /\ command' = cmd
  /\ data' = Undefined
  /\ privateKey' = UndefinedKey
  /\ publicKey' = UndefinedKey
  /\ signature' = Undefined
  /\ signature_b64' = << >>
  /\ valid' = FALSE
  /\ sigBytes' = Undefined
  /\ sigAtStart' = signatureFile
  /\ UNCHANGED << fsVars, signedWith, tampered >>

Exit(code) ==
  /\ pc' = "exited"
  /\ status' = code
  /\ pending' = { }

\* a sign that starts both reads at once
SignFirstRequests_Parallel == { "readData", "readKey" }

\* the requests sign and verify issue before they return
SignFirstRequests == { "readData" }
VerifyFirstRequests == { "readData" }

\* processArgs with argv[2] = 'sign' and three paths: sign(...)
RunSign ==
  /\ Start("sign")
  /\ pc' = "running"
  /\ status' = 0
  /\ console' = << Line("Loading data from dataPath") >>
  /\ pending' = SignFirstRequests
  /\ trace' = << "issue readData" >>

\* processArgs with argv[2] = 'verify' and three paths: verify(...)
RunVerify ==
  /\ Start("verify")
  /\ pc' = "running"
  /\ status' = 0
  /\ console' = << Line("Loading data from dataPath") >>
  /\ pending' = VerifyFirstRequests
  /\ trace' = << "issue readData" >>

\* processArgs otherwise: usage()
RunUsage ==
  /\ Start("usage")
  /\ console' = << Line("Usage:"), Line("  node signature.js sign"), Line("  node signature.js verify") >>
  /\ trace' = << >>
  /\ Exit(ExitStatus(-1))

Running(cmd, req) == pc = "running" /\ command = cmd /\ req \in pending

\* handleError(err) with err truthy: "Error" is printed and the process exits
Fail(req) ==
  /\ console' = Append(console, Line("Error"))
  /\ trace' = Append(trace, "fail " \o req)
  /\ Exit(ExitStatus(-1))

\* the callback got past handleError: its read is over and it issues the next
Continue(req, err, next) ==
  /\ pc' = pc
  /\ status' = status
  /\ pending' = (pending \ { req }) \cup { next }
  /\ trace' = trace \o << (IF err THEN "fail " ELSE "done ") \o req, "issue " \o next >>

\* an exception thrown inside a callback
Throw(req, err, printed) ==
  /\ console' = console \o printed
  /\ trace' = Append(trace, (IF err THEN "fail " ELSE "done ") \o req)
  /\ Exit(UncaughtStatus)

\* new Buffer(s) without the encoding: the string is taken as utf8
BinaryBuffer_Utf8(b) == Utf8Encode(b)

RECURSIVE BinaryBuffer(_)
\* new Buffer(s, 'binary'): each character's low byte
BinaryBuffer(b) == IF Len(b) = 0 THEN << >> ELSE << b[1] % 256 >> \o BinaryBuffer(Tail(b))

(***************************************************************************)
(* sign                                                                    *)
(***************************************************************************)
\* the callback of fs.readFile(dataPath)
SignDataCb ==
  /\ Running("sign", "readData")
  /\ LET err == ReadErr(dataFile)
     IN  IF HandleErrorExits(err)
         THEN Fail("readData") /\ data' = data
         ELSE /\ data' = IF err THEN Undefined ELSE Buffer(dataFile.bytes)
              /\ console' = Append(console, Line("Loading data from privateKeyPath"))
              /\ Continue("readData", err, "readKey")
  /\ UNCHANGED << fsVars, command, privateKey, publicKey, signature, signature_b64,
                  valid, sigBytes, runs, sigAtStart, signedWith, tampered >>

\* the callback of fs.readFile(privateKeyPath)
SignKeyCb ==
  /\ Running("sign", "readKey")
  /\ LET err == ReadErr(privateKeyFile)
         key == IF err THEN UndefinedKey ELSE KeyBuffer(privateKeyFile.pem)
     IN  IF HandleErrorExits(err)
         THEN /\ Fail("readKey")
              /\ UNCHANGED << privateKey, signature, signature_b64 >>
         ELSE IF ~data.defined
         THEN /\ Throw("readKey", err, << Line("Signing data") >>)
              /\ privateKey' = key
              /\ UNCHANGED << signature, signature_b64 >>
         ELSE IF ~key.defined
         THEN /\ Throw("readKey", err,
                       << Line("Signing data"), Dump("hex", data.bytes),
                          Line("Using private key") >>)
              /\ privateKey' = key
              /\ UNCHANGED << signature, signature_b64 >>
         ELSE IF SignThrows(key.pem)
         THEN /\ Throw("readKey", err,
                       << Line("Signing data"), Dump("hex", data.bytes),
                          Line("Using private key"), KeyDump("hex", key.pem) >>)
              /\ privateKey' = key
              /\ UNCHANGED << signature, signature_b64 >>
         ELSE LET sig == BinaryBuffer(SignerSign(SIGNATURE_ALGORITHM, data.bytes, key.pem))
                  b64 == Base64Encode(sig)
              IN  /\ privateKey' = key
                  /\ signature' = Buffer(sig)
                  /\ signature_b64' = b64
                  /\ console' = console \o
                       << Line("Signing data"), Dump("hex", data.bytes),
                          Line("Using private key"), KeyDump("hex", key.pem),
                          Line("Signature Bytes"), Dump("hex", sig),
                          Line("Signature Encoded as Base64"), Dump("text", b64) >>
                  /\ pc' = pc
                  /\ status' = status
                  /\ pending' = (pending \ { "readKey" }) \cup { "writeSig" }
                  /\ trace' = trace \o << "done readKey", "sign", "issue writeSig" >>
  /\ UNCHANGED << fsVars, command, data, publicKey, valid, sigBytes, runs, sigAtStart,
                  signedWith, tampered >>

\* a write that ends the text with a line feed
SignatureFileContent_Newline(b64) == Utf8Encode(Append(b64, 10))

\* what fs.writeFile(signaturePath, signature_b64) puts in the file
SignatureFileContent(b64) == Utf8Encode(b64)

\* fs.writeFile(signaturePath, signature_b64) and its callback, which ignores
\* err; nothing is left to run after it and the process ends
SignWriteCb ==
  /\ Running("sign", "writeSig")
  /\ IF sigWritable
     THEN /\ signatureFile' = File(SignatureFileContent(signature_b64))
          /\ signedWith' = privateKey.pem
          /\ tampered' = "none"
          /\ trace' = Append(trace, "done writeSig")
     ELSE /\ UNCHANGED << signatureFile, signedWith, tampered >>
          /\ trace' = Append(trace, "fail writeSig")
  /\ console' = Append(console, Line("Base64 Signature saved to signaturePath"))
  /\ Exit(0)
  /\ UNCHANGED << dataFile, privateKeyFile, publicKeyFile, sigWritable, command, locals,
                  runs, sigAtStart >>

(***************************************************************************)
(* verify                                                                  *)
(***************************************************************************)
\* an exit that reports success whatever the result
VerifyExitCode_AlwaysZero(v) == 0

\* process.exit(valid ? 0 : -1)
VerifyExitCode(v) == IF v THEN 0 ELSE -1

\* the callback of fs.readFile(dataPath)
VerifyDataCb ==
  /\ Running("verify", "readData")
  /\ LET err == ReadErr(dataFile)
     IN  IF HandleErrorExits(err)
         THEN Fail("readData") /\ data' = data
         ELSE /\ data' = IF err THEN Undefined ELSE Buffer(dataFile.bytes)
              /\ console' = Append(console, Line("Loading signature from signaturePath"))
              /\ Continue("readData", err, "readSig")
  /\ UNCHANGED << fsVars, command, privateKey, publicKey, signature, signature_b64,
                  valid, sigBytes, runs, sigAtStart, signedWith, tampered >>

\* the callback of fs.readFile(signaturePath, 'utf8')
VerifySigCb ==
  /\ Running("verify", "readSig")
  /\ LET err == ReadErr(signatureFile)
     IN  IF HandleErrorExits(err)
         THEN Fail("readSig") /\ signature' = signature
         ELSE /\ signature' = IF err THEN Undefined
                              ELSE Buffer(Utf8Decode(signatureFile.bytes))
              /\ console' = Append(console, Line("Loading public key from publicKeyPath"))
              /\ Continue("readSig", err, "readPub")
  /\ UNCHANGED << fsVars, command, data, privateKey, publicKey, signature_b64,
                  valid, sigBytes, runs, sigAtStart, signedWith, tampered >>

\* the callback of fs.readFile(publicKeyPath)
VerifyKeyCb ==
  /\ Running("verify", "readPub")
  /\ LET err == ReadErr(publicKeyFile)
         key == IF err THEN UndefinedKey ELSE KeyBuffer(publicKeyFile.pem)
     IN  IF HandleErrorExits(err)
         THEN /\ Fail("readPub")
              /\ UNCHANGED << publicKey, valid, sigBytes >>
         ELSE IF ~data.defined
         THEN /\ Throw("readPub", err,
                       << Line("Verifying signature"), Dump("text", signature.bytes),
                          Line("Over data") >>)
              /\ publicKey' = key
              /\ UNCHANGED << valid, sigBytes >>
         ELSE IF ~key.defined
         THEN /\ Throw("readPub", err,
                       << Line("Verifying signature"), Dump("text", signature.bytes),
                          Line("Over data"), Dump("hex", data.bytes),
                          Line("Using public key") >>)
              /\ publicKey' = key
              /\ UNCHANGED << valid, sigBytes >>
         ELSE IF VerifyThrows(key.pem) \/ ~signature.defined
         THEN /\ Throw("readPub", err,
                       << Line("Verifying signature"), Dump("text", signature.bytes),
                          Line("Over data"), Dump("hex", data.bytes),
                          Line("Using public key"), KeyDump("hex", key.pem) >>)
              /\ publicKey' = key
              /\ UNCHANGED << valid, sigBytes >>
         ELSE LET raw == Base64Decode(signature.bytes)
                  ok == VerifierVerify(SIGNATURE_ALGORITHM, data.bytes, key.pem, raw)
              IN  /\ publicKey' = key
                  /\ sigBytes' = Buffer(raw)
                  /\ valid' = ok
                  /\ console' = console \o
                       << Line("Verifying signature"), Dump("text", signature.bytes),
                          Line("Over data"), Dump("hex", data.bytes),
                          Line("Using public key"), KeyDump("hex", key.pem),
                          Line(IF ok THEN "Signature valid? true"
                                     ELSE "Signature valid? false") >>
                  /\ trace' = trace \o << "done readPub", "verify" >>
                  /\ Exit(ExitStatus(VerifyExitCode(ok)))
  /\ UNCHANGED << fsVars, command, data, privateKey, signature, signature_b64, runs,
                  sigAtStart, signedWith, tampered >>

(***************************************************************************)
(* Between two runs, one bit of the data file or of the signature file     *)
(* left by sign is inverted.                                               *)
(***************************************************************************)
CanTamper ==
  /\ pc = "exited"
  /\ runs < MaxRuns
  /\ signedWith # NotAKey
  /\ tampered = "none"

TamperData ==
  /\ CanTamper
  /\ dataFile.exists
  /\ \E i \in 1..Len(dataFile.bytes), k \in 0..7 :
       dataFile' = File(FlipAt(dataFile.bytes, i, k))
  /\ tampered' = "data"
  /\ UNCHANGED << privateKeyFile, signatureFile, publicKeyFile, sigWritable, pc, command,
                  status, pending, locals, console, trace, runs, sigAtStart, signedWith >>

TamperSignature ==
  /\ CanTamper
  /\ signatureFile.exists
  /\ \E i \in 1..Len(signatureFile.bytes), k \in 0..7 :
       signatureFile' = File(FlipAt(signatureFile.bytes, i, k))
  /\ tampered' = "signature"
  /\ UNCHANGED << dataFile, privateKeyFile, publicKeyFile, sigWritable, pc, command,
                  status, pending, locals, console, trace, runs, sigAtStart, signedWith >>

Next ==
  \/ RunSign
  \/ RunVerify
  \/ RunUsage
  \/ SignDataCb
  \/ SignKeyCb
  \/ SignWriteCb
  \/ VerifyDataCb
  \/ VerifySigCb
  \/ VerifyKeyCb
  \/ TamperData
  \/ TamperSignature

Spec == Init /\ [][Next]_vars

(***************************************************************************)
(* The codec alone: a raw signature of any bytes goes through sign's       *)
(* encoding and file write, then through verify's file read and decoding.  *)
(***************************************************************************)
CodecBytes == { 0, 127, 128, 251, 255 }

CodecInit ==
  /\ signature \in { Buffer(b) : b \in SeqsUpTo(CodecBytes, MaxRawLen) }
  /\ pc = "raw"
  /\ dataFile = NoFile
  /\ privateKeyFile = NoKeyFile
  /\ publicKeyFile = NoKeyFile
  /\ signatureFile = NoFile
  /\ sigWritable = TRUE
  /\ command = "none"
  /\ status = 0
  /\ pending = { }
  /\ data = Undefined
  /\ privateKey = UndefinedKey
  /\ publicKey = UndefinedKey
  /\ signature_b64 = << >>
  /\ valid = FALSE
  /\ sigBytes = Undefined
  /\ console = << >>
  /\ trace = << >>
  /\ runs = 0
  /\ sigAtStart = NoFile
  /\ signedWith = NotAKey
  /\ tampered = "none"

\* signature.toString('base64')
CodecEncode ==
  /\ pc = "raw"
  /\ pc' = "encoded"
  /\ signature_b64' = Base64Encode(signature.bytes)
  /\ UNCHANGED << fsVars, command, status, pending, data, privateKey, publicKey,
                  signature, valid, sigBytes, console, trace, runs, sigAtStart,
                  signedWith, tampered >>

\* fs.writeFile(signaturePath, signature_b64)
CodecWrite ==
  /\ pc = "encoded"
  /\ pc' = "written"
  /\ signatureFile' = File(SignatureFileContent(signature_b64))
  /\ UNCHANGED << dataFile, privateKeyFile, publicKeyFile, sigWritable, command, status,
                  pending, locals, console, trace, runs, sigAtStart, signedWith,
                  tampered >>

\* fs.readFile(signaturePath, 'utf8') and the 'base64' decoding in verifier.verify
CodecDecode ==
  /\ pc = "written"
  /\ pc' = "decoded"
  /\ sigBytes' = Buffer(Base64Decode(Utf8Decode(signatureFile.bytes)))
  /\ UNCHANGED << fsVars, command, status, pending, data, privateKey, publicKey,
                  signature, signature_b64, valid, console, trace, runs, sigAtStart,
                  signedWith, tampered >>

CodecNext == CodecEncode \/ CodecWrite \/ CodecDecode

SpecCodec == CodecInit /\ [][CodecNext]_vars

(***************************************************************************)
(* Properties.                                                             *)
(***************************************************************************)
Did(ev) == \E i \in DOMAIN trace : trace[i] = ev

Exited(cmd) == pc = "exited" /\ command = cmd

ReadFailures == { "fail readData", "fail readKey", "fail readSig", "fail readPub" }

\* C1: a run of verify exits with status 0 if and only if its three files
\* were read and the verification primitive accepts the data read, the decoded
\* signature read and the public key read; every other outcome is non-zero.
C1_VerifyExitZeroIffValid ==
  Exited("verify") =>
    ( status = 0 <=>
        /\ Did("done readData") /\ Did("done readSig") /\ Did("done readPub")
        /\ data.defined /\ signature.defined /\ publicKey.defined
        /\ ~VerifyThrows(publicKey.pem)
        /\ VerifierVerify(SIGNATURE_ALGORITHM, data.bytes, publicKey.pem,
                          Base64Decode(signature.bytes)) )

C1_Witness == Exited("verify") /\ status = 0 /\ Did("verify")

\* C2: when sign has written its signature with the private key of a pair, and
\* neither the data file nor the signature file was changed since, a run of
\* verify with the public key of that pair exits with status 0.
C2_SignThenVerify ==
  ( /\ Exited("verify")
    /\ signedWith # NotAKey
    /\ tampered = "none"
    /\ publicKeyFile.exists
    /\ << signedWith, publicKeyFile.pem >> \in KeyPairs )
  => status = 0

C2_Witness ==
  /\ Exited("verify")
  /\ signedWith = PrivateKey2
  /\ tampered = "none"
  /\ publicKeyFile = KeyFile(PublicKey2)
  /\ dataFile = File(<< >>)
  /\ valid

\* C3: after sign has written its signature, inverting any one bit of the
\* data file or of the signature file makes a later verify exit non-zero.
C3_TamperRejected ==
  ( Exited("verify") /\ signedWith # NotAKey /\ tampered # "none" ) => status # 0

\* C4: a run of sign exits with status 0 only if the encoded signature was
\* written to the output path.
C4_SignExitZeroOnlyIfWritten ==
  ( Exited("sign") /\ status = 0 ) => Did("done writeSig")

IsAlphabetChar(c) ==
  \/ c >= 65 /\ c <= 90
  \/ c >= 97 /\ c <= 122
  \/ c >= 48 /\ c <= 57
  \/ c = 43
  \/ c = 47

\* base64 text: groups of four, the alphabet, at most two '=' and only at the end
IsBase64Text(t) ==
  /\ Len(t) % 4 = 0
  /\ \A i \in DOMAIN t :
       \/ IsAlphabetChar(t[i])
       \/ t[i] = PadChar /\ i > Len(t) - 2 /\ \A j \in i..Len(t) : t[j] = PadChar

\* C5: text that is not valid base64 is never decoded to bytes and handed to
\* the verification primitive.
C5_InvalidArtifactNeverDecoded ==
  ( command = "verify" /\ sigBytes.defined ) => IsBase64Text(signature.bytes)

\* C6: decoding, as verify does, the text that sign's encoding step produces
\* for a raw signature s yields exactly s.
C6_RoundTrip == pc = "decoded" => sigBytes.bytes = signature.bytes

C6_Witness ==
  /\ pc = "decoded"
  /\ Len(signature.bytes) % 3 = 2
  /\ \E i \in DOMAIN signature.bytes : signature.bytes[i] >= 128

\* C7: once sign has written the signature file, the file holds exactly the
\* base64 text of the raw signature over the data read with the key read, and a
\* run of sign changes the file in no other way.
C7_Written ==
  ( command = "sign" /\ Did("done writeSig") /\ tampered = "none" ) =>
    /\ data.bytes = dataFile.bytes
    /\ privateKey.pem = privateKeyFile.pem
    /\ signatureFile.exists
    /\ signatureFile.bytes =
         Base64Encode(SignerSign(SIGNATURE_ALGORITHM, dataFile.bytes, privateKeyFile.pem))

C7_Step ==
  ( pc = "running" /\ command = "sign" ) =>
    IF trace' = Append(trace, "done writeSig")
    THEN signatureFile' =
           File(Base64Encode(SignerSign(SIGNATURE_ALGORITHM, dataFile.bytes,
                                        privateKeyFile.pem)))
    ELSE signatureFile' = signatureFile

C7_ArtifactIsExactlyTheEncoding == [](C7_Written) /\ [][C7_Step]_vars

C7_Witness ==
  /\ Exited("sign")
  /\ Did("done writeSig")
  /\ tampered = "none"
  /\ sigAtStart # signatureFile

\* C8: the private key material is never written to the console.
C8_PrivateKeyNeverLogged ==
  command = "sign" => \A i \in DOMAIN console : console[i].pem = NotAKey

\* C9: requests are issued one at a time, each from the callback of the one
\* before: the signing primitive runs after the data read and then the key read
\* have succeeded, the write is issued after the signature is computed, and the
\* verification primitive runs after the data, signature and public key reads
\* have succeeded in that order.
C9_CausalOrder ==
  /\ Cardinality(pending) <= 1
  /\ \A i \in DOMAIN trace :
       /\ trace[i] = "sign" =>
            /\ i = 5
            /\ SubSeq(trace, 1, 4) =
                 << "issue readData", "done readData", "issue readKey", "done readKey" >>
       /\ trace[i] = "issue writeSig" => i > 1 /\ trace[i - 1] = "sign"
       /\ trace[i] = "verify" =>
            /\ i = 7
            /\ SubSeq(trace, 1, 6) =
                 << "issue readData", "done readData", "issue readSig", "done readSig",
                    "issue readPub", "done readPub" >>
       /\ trace[i] \in { "issue readKey", "issue readSig" } =>
            i > 1 /\ trace[i - 1] = "done readData"
       /\ trace[i] = "issue readPub" => i > 1 /\ trace[i - 1] = "done readSig"

C9_Witness == Exited("sign") /\ Did("done writeSig") /\ Len(trace) = 7

\* C10: when a file read reports an error the process exits non-zero in that
\* callback: no request is issued after it, neither primitive runs, and sign
\* leaves the signature file as it was.
C10_FailStopOnReadError ==
  \A i \in DOMAIN trace :
    trace[i] \in ReadFailures =>
      /\ i = Len(trace)
      /\ pc = "exited"
      /\ status # 0
      /\ pending = { }
      /\ ~Did("sign")
      /\ ~Did("verify")
      /\ (command = "sign" /\ tampered = "none") => signatureFile = sigAtStart

C10_Witness == Exited("sign") /\ Did("fail readKey") /\ signatureFile.exists

====
